---- MODULE Spec2Model ----
(***************************************************************************)
(* A model of the hierarchical state machine engine of hsm.h               *)
(* (hsm::StateMachine with its State, Transition and queue types) driven   *)
(* by the state and event types of test.cc.                                *)
(*                                                                         *)
(* The engine is single-threaded.  Its public calls (initialize, stop,     *)
(* process_event) are the top-level actions; process_event is executed     *)
(* step by step along its call stack (variable frames): one action per     *)
(* loop iteration of ProcessQueueEvent, ProcessDeferredEvent and           *)
(* process_event, so that the order of handler calls is observable.        *)
(* The results of the user's react functions are inputs: a react function  *)
(* of a claimed event may return finish(), defer() or transit<K>().        *)
(***************************************************************************)
EXTENDS Integers, Sequences, FiniteSets, TLC

\* ------------------------------------------------------------------ bounds
MaxEvents == 3   \* number of process_event calls of one run
MaxStates == 5   \* number of State instances allocated in one run
MaxCalls  == 6   \* depth of the call stack under process_event
MaxStops  == 2   \* number of stop calls of one run
MaxOps    == 4   \* number of calls made on the machine in one run

\* ------------------------------------------------------- program constants
ABORT_WHEN_AN_EVENT_NOT_HANDLE == TRUE

VARIABLES
    state_stack_,         \* StateMachine::state_stack_, index 1 is the root
    event_queue_,         \* StateMachine::event_queue_
    deferred_queue_,      \* StateMachine::deferred_queue_
    initial_transition_,  \* StateMachine::initial_transition_
    frames,               \* call stack of the running process_event
    log,                  \* history of hook calls, handler calls and queue steps
    status,               \* "running", "aborted" (assert), "crashed" (undefined behaviour)
    next_state,           \* identity of the next State instance allocated
    next_event,           \* identity of the next Event clone
    next_run,             \* identity of the next ProcessQueueEvent call
    abort_unknown         \* the build's ABORT_WHEN_RECEIVE_UNKNOWN_EVENT

vars == <<state_stack_, event_queue_, deferred_queue_, initial_transition_,
          frames, log, status, next_state, next_event, next_run, abort_unknown>>

\* ------------------------------------------------------- types of test.cc
\* "Outer" is one more state type of the same form: state_base<Outer, First>
\* claiming event_open and event_close (with no react overload of its own
\* for event_close), so that an initial-substate chain of three states, an
\* outer claimant of an event and the default react exist.
StateTypes == {"Outer", "First", "Second", "Third"}

EventTypes == {"event_open", "event_close"}

\* state types handed to initialize<>
RootTypes == {"Outer", "First"}

\* second template parameter of state_base: InitType (SelfType when omitted)
InitType(SelfType) ==
    CASE SelfType = "Outer"  -> "First"
      [] SelfType = "First"  -> "Second"
      [] SelfType = "Second" -> "Second"
      [] SelfType = "Third"  -> "Third"

\* typedef ... reactions; the default is hsm_vector<event_base_type>, the
\* base type Event, which is the type of no cloned event
reactions(SelfType) ==
    CASE SelfType = "Outer"  -> <<"event_open", "event_close">>
      [] SelfType = "First"  -> <<"Event">>
      [] SelfType = "Second" -> <<"event_open", "event_close">>
      [] SelfType = "Third"  -> <<"event_close">>

\* --------------------------------------------------------------- Transition
NoTransition == [transition_type_ |-> "No", state_factory_ |-> "null"]

EndTransition == [transition_type_ |-> "End", state_factory_ |-> "null"]

SiblingTransition(TargetState) ==
    [transition_type_ |-> "Sibling", state_factory_ |-> TargetState]

IsNo(transition) == transition.transition_type_ = "No"

\* What a react function can do: the name of the State member whose result
\* it returns (finish, defer, transit) and transit's target.  test.cc: Second
\* defers event_close and answers event_open with transit<Third>, Third
\* answers event_close with finish.  A react function may decide on the
\* owner's data, so each call may have any of the outcomes of its state type.
Outcome(call, target) == [call |-> call, target |-> target]

\* the state types the react functions of a state type name in transit<>
TransitTargets(SelfType) ==
    CASE SelfType = "Outer"  -> {"First"}
      [] SelfType = "Second" -> {"Third"}
      [] SelfType = "Third"  -> {"Second", "First"}
      [] OTHER -> {}

ReactOutcomes(SelfType) ==
    {Outcome("finish", "null"), Outcome("defer", "null")}
    \cup {Outcome("transit", TargetState) : TargetState \in TransitTargets(SelfType)}

\* the react overload chosen for a claimed event: the state's own, or
\* state_base::react(const Event&) where the state declares none (Outer
\* claims event_close and has no react for it)
react(SelfType, EventType) ==
    IF SelfType = "Outer" /\ EventType = "event_close"
    THEN {Outcome("react", "null")}
    ELSE ReactOutcomes(SelfType)

\* state_base::Dispatch / DispatchImpl: walk the reactions list front to back,
\* the first type equal to the event's type selects react; the end of the list
\* gives EndTransition.  The result is the set of outcomes the call can have.
\* mutant: only the front of the reactions list is compared
DispatchImplFront(SelfType, Sequence, e) ==
    IF Head(Sequence) = e.type
    THEN react(SelfType, e.type)
    ELSE {Outcome("end", "null")}

RECURSIVE DispatchImpl(_, _, _)
DispatchImpl(SelfType, Sequence, e) ==
    IF Head(Sequence) = e.type
    THEN react(SelfType, e.type)
    ELSE IF Len(Sequence) = 1
         THEN {Outcome("end", "null")}
         ELSE DispatchImpl(SelfType, Tail(Sequence), e)

Dispatch(s, e) == DispatchImpl(s.type, reactions(s.type), e)

HasInitializeState(s) == InitType(s.type) # s.type

GetInitializeState(s) == SiblingTransition(InitType(s.type))

\* ------------------------------------------------------------ log entries
\* The log is the history of the run: hook calls (on_enter, on_exit), handler
\* calls (Dispatch) and the steps of the queues.  depth is a stack index,
\* run names a call of ProcessQueueEvent, pass names a call of
\* ProcessDeferredEvent by the run that made it, q is a queue's content,
\* etype is the type of the event ev (typeid of the clone).
Entry(op, run, depth, s, ev, res) ==
    [op |-> op, run |-> run, pass |-> 0, depth |-> depth, sid |-> s.id,
     type |-> s.type, ev |-> ev, etype |-> "null", res |-> res,
     target |-> "null", q |-> <<>>]

NoState == [id |-> 0, type |-> "null", stack_depth_ |-> 0]

NoEvent == [id |-> 0, type |-> "null"]

Ids(queue) == [n \in DOMAIN queue |-> queue[n].id]

\* ------------------------------------------------ stack operations
\* These work on m = [stack, log, next, failed]: the state stack, the log,
\* the next instance identity and whether an hsm_assert has failed.
Machine == [stack |-> state_stack_, log |-> log, next |-> next_state, failed |-> FALSE]

\* CreateState + InitState
CreateState(transition, stack_depth, id) ==
    [id |-> id, type |-> transition.state_factory_, stack_depth_ |-> stack_depth]

RECURSIVE PushState(_, _)
RECURSIVE CreateAndPushInitialState(_, _)

\* mutant: the state is pushed and entered, its initial substate is not
PushStateOnly(m, state) ==
    [m EXCEPT
       !.stack = Append(m.stack, state),
       !.log = Append(m.log, Entry("on_enter", 0, Len(m.stack), state, 0, "-"))]

PushState(m, state) ==
    LET pushed == [m EXCEPT
                     !.stack = Append(m.stack, state),
                     !.log = Append(m.log,
                                Entry("on_enter", 0, Len(m.stack), state, 0, "-"))]
    IN  IF HasInitializeState(state)
        THEN CreateAndPushInitialState(pushed, GetInitializeState(state))
        ELSE pushed

CreateAndPushInitialState(m, transition) ==
    PushState([m EXCEPT !.next = m.next + 1], CreateState(transition, 0, m.next))

\* mutant: the state is removed and destroyed, on_exit is not invoked
PopStateNoExit(m) ==
    IF m.stack = <<>>
    THEN [m EXCEPT !.failed = TRUE]
    ELSE [m EXCEPT !.stack = SubSeq(m.stack, 1, Len(m.stack) - 1)]

PopState(m) ==
    IF m.stack = <<>>
    THEN [m EXCEPT !.failed = TRUE]
    ELSE LET state == m.stack[Len(m.stack)]
         IN  [m EXCEPT
                !.stack = SubSeq(m.stack, 1, Len(m.stack) - 1),
                !.log = Append(m.log,
                           Entry("on_exit", 0, Len(m.stack) - 1, state, 0, "-"))]

\* mutant: the states at depth .. i are exited and removed root first
RECURSIVE PopLoopRootFirst(_, _, _)
PopLoopRootFirst(m, i, depth) ==
    IF i >= depth
    THEN PopLoopRootFirst(
            [m EXCEPT
               !.stack = SubSeq(m.stack, 1, depth) \o SubSeq(m.stack, depth + 2, Len(m.stack)),
               !.log = Append(m.log,
                          Entry("on_exit", 0, depth + Len(m.stack) - 1 - i,
                                m.stack[depth + 1], 0, "-"))],
            i - 1, depth)
    ELSE m

\* the loop of PopStateAtDepth: for (i = size - 1; i >= depth; --i) PopState()
RECURSIVE PopLoop(_, _, _)
PopLoop(m, i, depth) ==
    IF i >= depth /\ ~m.failed THEN PopLoop(PopState(m), i - 1, depth) ELSE m

\* mutant: every state is popped, whatever the depth
PopStateAtDepthZero(m, depth) == PopLoop(m, Len(m.stack) - 1, 0)

PopStateAtDepth(m, depth) ==
    IF ~(depth < Len(m.stack)) \/ ~(depth >= 0)
    THEN [m EXCEPT !.failed = TRUE]
    ELSE PopLoop(m, Len(m.stack) - 1, depth)

\* number of states PushState pushes for a state of this type
RECURSIVE ChainLen(_)
ChainLen(t) == IF InitType(t) # t THEN 1 + ChainLen(InitType(t)) ELSE 1

\* the calls made on the machine so far: initialize, process_event, stop
CallsMade ==
    Cardinality({n \in DOMAIN log : log[n].op \in {"initialize", "process_event", "stop"}})

\* ------------------------------------------------------------------- Init
Init ==
    /\ state_stack_ = <<>>
    /\ event_queue_ = <<>>
    /\ deferred_queue_ = <<>>
    /\ initial_transition_ = NoTransition
    /\ frames = <<>>
    /\ log = <<>>
    /\ status = "running"
    /\ next_state = 1
    /\ next_event = 1
    /\ next_run = 1
    /\ abort_unknown \in BOOLEAN

Idle == status = "running" /\ frames = <<>>

\* -------------------------------------------------------------- initialize
\* mutant: only the emptiness of the stack is asserted
initializeUnchecked(InitialStateType) ==
    /\ Idle
    /\ CallsMade < MaxOps
    /\ next_state + ChainLen(InitialStateType) - 1 <= MaxStates
    /\ IF state_stack_ # <<>>
       THEN /\ status' = "aborted"
            /\ log' = Append(log, [Entry("initialize", 0, 0, NoState, 0, "assert")
                                     EXCEPT !.target = InitialStateType])
            /\ UNCHANGED <<state_stack_, next_state, initial_transition_>>
       ELSE LET m == CreateAndPushInitialState(
                         [Machine EXCEPT !.log = Append(log,
                             [Entry("initialize", 0, 0, NoState, 0, "-")
                                EXCEPT !.target = InitialStateType])],
                         SiblingTransition(InitialStateType))
            IN  /\ initial_transition_' = SiblingTransition(InitialStateType)
                /\ state_stack_' = m.stack
                /\ log' = m.log
                /\ next_state' = m.next
                /\ status' = "running"
    /\ UNCHANGED <<event_queue_, deferred_queue_, frames, next_event, next_run,
                   abort_unknown>>

initialize(InitialStateType) ==
    /\ Idle
    /\ CallsMade < MaxOps
    /\ next_state + ChainLen(InitialStateType) - 1 <= MaxStates
    /\ IF ~IsNo(initial_transition_) \/ state_stack_ # <<>>
       THEN /\ status' = "aborted"
            /\ log' = Append(log, [Entry("initialize", 0, 0, NoState, 0, "assert")
                                     EXCEPT !.target = InitialStateType])
            /\ UNCHANGED <<state_stack_, next_state, initial_transition_>>
       ELSE LET m == CreateAndPushInitialState(
                         [Machine EXCEPT !.log = Append(log,
                             [Entry("initialize", 0, 0, NoState, 0, "-")
                                EXCEPT !.target = InitialStateType])],
                         SiblingTransition(InitialStateType))
            IN  /\ initial_transition_' = SiblingTransition(InitialStateType)
                /\ state_stack_' = m.stack
                /\ log' = m.log
                /\ next_state' = m.next
                /\ status' = "running"
    /\ UNCHANGED <<event_queue_, deferred_queue_, frames, next_event, next_run,
                   abort_unknown>>

\* ------------------------------------------------------------------- stop
\* mutant: stop pops the leaf alone
stopLeaf ==
    /\ Idle
    /\ CallsMade < MaxOps
    /\ Cardinality({n \in DOMAIN log : log[n].op = "stop"}) < MaxStops
    /\ LET m == IF Len(state_stack_) > 0 THEN PopState(Machine) ELSE Machine
       IN  /\ state_stack_' = m.stack
           /\ log' = Append(m.log, Entry("stop", 0, 0, NoState, 0, "-"))
           /\ status' = IF m.failed \/ m.stack # <<>> THEN "aborted" ELSE "running"
    /\ UNCHANGED <<event_queue_, deferred_queue_, initial_transition_, frames,
                   next_state, next_event, next_run, abort_unknown>>

stop ==
    /\ Idle
    /\ CallsMade < MaxOps
    /\ Cardinality({n \in DOMAIN log : log[n].op = "stop"}) < MaxStops
    /\ LET m == IF Len(state_stack_) > 0 THEN PopStateAtDepth(Machine, 0) ELSE Machine
       IN  /\ state_stack_' = m.stack
           /\ log' = Append(m.log, Entry("stop", 0, 0, NoState, 0, "-"))
           /\ status' = IF m.failed \/ m.stack # <<>> THEN "aborted" ELSE "running"
    /\ UNCHANGED <<event_queue_, deferred_queue_, initial_transition_, frames,
                   next_state, next_event, next_run, abort_unknown>>

\* ---------------------------------------------------------- call frames
\* fn: the function; pc: "loop" at the head of its loop, "called" while a
\* call it made runs; depth: ProcessQueueEvent's loop variable; i:
\* ProcessDeferredEvent's loop variable; ev: the event a ProcessQueueEvent
\* dispatches (a ProcessDeferredEvent replays); run: the call's identity;
\* pass: the ProcessDeferredEvent call that made this call (0: process_event).
Frame(fn, pc, depth, i, ev, run, pass) ==
    [fn |-> fn, pc |-> pc, depth |-> depth, i |-> i, ev |-> ev, run |-> run,
     pass |-> pass]

Top == frames[Len(frames)]

SetTop(f) == [frames EXCEPT ![Len(frames)] = f]

Pop(n) == SubSeq(frames, 1, Len(frames) - n)

\* a call of ProcessQueueEvent: its frame, for the event at the queue's front
CallPQE(stack, ev, pass) ==
    Append(stack, Frame("ProcessQueueEvent", "loop", 0, 0, ev, next_run, pass))

\* ---------------------------------------------------------- process_event
\* event_queue_.push_back(event.Clone()) and the first turn of the loop up
\* to the call of ProcessQueueEvent
process_event(type) ==
    /\ Idle
    /\ CallsMade < MaxOps
    /\ next_event <= MaxEvents
    /\ LET ev == [id |-> next_event, type |-> type]
       IN  /\ event_queue_' = Append(event_queue_, ev)
           /\ frames' = CallPQE(<<Frame("process_event", "called", 0, 0, ev, 0, 0)>>,
                                Head(event_queue_'), 0)
           /\ log' = Append(log, [Entry("process_event", next_run, 0, NoState, ev.id, "-")
                                    EXCEPT !.etype = type, !.q = Ids(deferred_queue_)])
    /\ next_event' = next_event + 1
    /\ next_run' = next_run + 1
    /\ UNCHANGED <<state_stack_, deferred_queue_, initial_transition_, status,
                   next_state, abort_unknown>>

\* mutant: process_event returns after one ProcessQueueEvent, popping nothing
DrainStepOnce(queue) == [queue |-> queue, again |-> FALSE]

\* the loop of process_event after ProcessQueueEvent has returned:
\* event_queue_.pop_front(), then the loop test; [queue, again]
DrainStep(queue) == [queue |-> Tail(queue), again |-> Tail(queue) # <<>>]

process_event_next ==
    /\ status = "running"
    /\ frames # <<>>
    /\ Top.fn = "process_event"
    /\ event_queue_ # <<>>
    /\ LET step == DrainStep(event_queue_)
       IN  /\ event_queue_' = step.queue
           /\ IF ~step.again
              THEN /\ frames' = <<>>
                   /\ log' = Append(log, [Entry("return", 0, 0, NoState, Top.ev.id, "-")
                                            EXCEPT !.q = Ids(deferred_queue_)])
                   /\ UNCHANGED next_run
              ELSE /\ frames' = CallPQE(frames, Head(step.queue), 0)
                   /\ log' = log
                   /\ next_run' = next_run + 1
    /\ UNCHANGED <<state_stack_, deferred_queue_, initial_transition_, status,
                   next_state, next_event, abort_unknown>>

\* ------------------------------------------------------ ProcessQueueEvent
InPQE ==
    /\ status = "running"
    /\ frames # <<>>
    /\ Top.fn = "ProcessQueueEvent"
    /\ Top.pc = "loop"

\* mutant: the loop index counts from the leaf
ConsultedLeafFirst == state_stack_[Len(state_stack_) - Top.depth]

\* GetStateAtDepth(depth)
Consulted == state_stack_[Top.depth + 1]

\* event_queue_.front()
FrontEvent == Head(event_queue_)

Consults(call) ==
    /\ InPQE
    /\ Top.depth < Len(state_stack_)
    /\ event_queue_ # <<>>
    /\ \E out \in Dispatch(Consulted, FrontEvent) : out.call = call

ConsultEntry(res) ==
    [Entry("Dispatch", Top.run, Top.depth, Consulted, FrontEvent.id, res)
       EXCEPT !.pass = Top.pass, !.etype = FrontEvent.type]

\* case Transition::End: continue
DispatchEnd ==
    /\ Consults("end")
    /\ frames' = SetTop([Top EXCEPT !.depth = Top.depth + 1])
    /\ log' = Append(log, ConsultEntry("End"))
    /\ UNCHANGED <<state_stack_, event_queue_, deferred_queue_, initial_transition_,
                   status, next_state, next_event, next_run, abort_unknown>>

\* react returns finish() or discard(); case Transition::No: return
DispatchNo ==
    /\ Consults("finish")
    /\ frames' = Pop(1)
    /\ log' = Append(log, ConsultEntry("No"))
    /\ UNCHANGED <<state_stack_, event_queue_, deferred_queue_, initial_transition_,
                   status, next_state, next_event, next_run, abort_unknown>>

\* mutant: the deferred queue is assigned, not appended to
DeferEventReplace(deferred, events) == <<Head(events)>>

\* StateMachine::DeferEvent on the two queues: the deferred queue after it
DeferEvent(deferred, events) == Append(deferred, Head(events))

\* react returns defer(): DeferEvent, then case Transition::No: return
DispatchDefer ==
    /\ Consults("defer")
    /\ deferred_queue_' = DeferEvent(deferred_queue_, event_queue_)
    /\ frames' = Pop(1)
    /\ log' = Append(log, ConsultEntry("Defer"))
    /\ UNCHANGED <<state_stack_, event_queue_, initial_transition_,
                   status, next_state, next_event, next_run, abort_unknown>>

\* the state claims the event and has no react for it: state_base::react(const Event&)
DispatchDefaultReact ==
    /\ Consults("react")
    /\ log' = Append(log, ConsultEntry("NoReact"))
    /\ IF ABORT_WHEN_AN_EVENT_NOT_HANDLE
       THEN status' = "aborted" /\ frames' = frames
       ELSE status' = status /\ frames' = Pop(1)
    /\ UNCHANGED <<state_stack_, event_queue_, deferred_queue_, initial_transition_,
                   next_state, next_event, next_run, abort_unknown>>

\* mutant: the states above depth are popped, the one at depth is kept
ExecuteSiblingAbove(m, transition, depth) ==
    LET popped == PopLoop(m, Len(m.stack) - 1, depth + 1)
        target_state == CreateState(transition, depth, popped.next)
    IN  PushState([popped EXCEPT !.next = popped.next + 1], target_state)

\* mutant: the target state is pushed before the states are popped
ExecuteSiblingPushFirst(m, transition, depth) ==
    LET target_state == CreateState(transition, depth, m.next)
        pushed == PushState([m EXCEPT !.next = m.next + 1], target_state)
    IN  PopStateAtDepth(pushed, depth)

\* mutant: the states are popped and the target state is not pushed
ExecuteSiblingPopOnly(m, transition, depth) ==
    LET popped == PopStateAtDepth(m, depth)
    IN  [popped EXCEPT !.next = popped.next + 1]

\* what case Transition::Sibling does to the stack: PopStateAtDepth(depth),
\* CreateState(transition, this, depth), PushState(target_state)
ExecuteSibling(m, transition, depth) ==
    LET popped == PopStateAtDepth(m, depth)
        target_state == CreateState(transition, depth, popped.next)
    IN  PushState([popped EXCEPT !.next = popped.next + 1], target_state)

\* react returns transit<TargetState>(); case Transition::Sibling up to the
\* call of ProcessDeferredEvent
DispatchSibling(TargetState) ==
    /\ Consults("transit")
    /\ Outcome("transit", TargetState) \in Dispatch(Consulted, FrontEvent)
    /\ Len(frames) + 1 <= MaxCalls
    /\ next_state + ChainLen(TargetState) - 1 <= MaxStates
    /\ LET m == ExecuteSibling(
                   [Machine EXCEPT !.log = Append(log,
                       [ConsultEntry("Sibling") EXCEPT !.target = TargetState])],
                   SiblingTransition(TargetState), Top.depth)
       IN  /\ state_stack_' = m.stack
           /\ next_state' = m.next
           /\ log' = Append(m.log,
                        [Entry("ProcessDeferredEvent", Top.run, Top.depth, NoState,
                               FrontEvent.id, "-")
                           EXCEPT !.pass = Top.run, !.q = Ids(deferred_queue_)])
           /\ status' = IF m.failed THEN "aborted" ELSE "running"
    /\ frames' = Append(SetTop([Top EXCEPT !.pc = "called"]),
                        Frame("ProcessDeferredEvent", "loop", 0, Len(deferred_queue_),
                              NoEvent, Top.run, Top.run))
    /\ UNCHANGED <<event_queue_, deferred_queue_, initial_transition_,
                   next_event, next_run, abort_unknown>>

\* mutant: the unknown event is kept in the deferred queue
UnknownEventDeferred ==
    /\ InPQE
    /\ ~(Top.depth < Len(state_stack_))
    /\ log' = Append(log, [Entry("unknown", Top.run, Top.depth, NoState, Top.ev.id, "-")
                             EXCEPT !.pass = Top.pass, !.etype = Top.ev.type])
    /\ deferred_queue_' = Append(deferred_queue_, Top.ev)
    /\ IF abort_unknown
       THEN status' = "aborted" /\ frames' = frames
       ELSE status' = status /\ frames' = Pop(1)
    /\ UNCHANGED <<state_stack_, event_queue_, initial_transition_,
                   next_state, next_event, next_run, abort_unknown>>

\* mutant: the diagnostic is printed and nothing is asserted
UnknownEventNoAssert ==
    /\ InPQE
    /\ ~(Top.depth < Len(state_stack_))
    /\ log' = Append(log, [Entry("unknown", Top.run, Top.depth, NoState, Top.ev.id, "-")
                             EXCEPT !.pass = Top.pass, !.etype = Top.ev.type])
    /\ status' = status
    /\ frames' = Pop(1)
    /\ UNCHANGED <<state_stack_, event_queue_, deferred_queue_, initial_transition_,
                   next_state, next_event, next_run, abort_unknown>>

\* the loop ended: every state returned End (or the stack is empty)
UnknownEvent ==
    /\ InPQE
    /\ ~(Top.depth < Len(state_stack_))
    /\ log' = Append(log, [Entry("unknown", Top.run, Top.depth, NoState, Top.ev.id, "-")
                             EXCEPT !.pass = Top.pass, !.etype = Top.ev.type])
    /\ IF abort_unknown
       THEN status' = "aborted" /\ frames' = frames
       ELSE status' = status /\ frames' = Pop(1)
    /\ UNCHANGED <<state_stack_, event_queue_, deferred_queue_, initial_transition_,
                   next_state, next_event, next_run, abort_unknown>>

\* --------------------------------------------------- ProcessDeferredEvent
InPDE(pc) ==
    /\ status = "running"
    /\ frames # <<>>
    /\ Top.fn = "ProcessDeferredEvent"
    /\ Top.pc = pc

\* mutant: break in place of return: the loop over the depths goes on
AfterProcessDeferredEventBreak(stack) ==
    LET caller == stack[Len(stack) - 1]
    IN  Append(SubSeq(stack, 1, Len(stack) - 2),
               [caller EXCEPT !.pc = "loop", !.depth = caller.depth + 1])

\* ProcessDeferredEvent(); return;  the call stack once ProcessDeferredEvent
\* has returned to case Transition::Sibling
AfterProcessDeferredEvent(stack) == SubSeq(stack, 1, Len(stack) - 2)

\* loop test fails: return, and ProcessQueueEvent goes on after the call
ReplayDone ==
    /\ InPDE("loop")
    /\ Top.i = 0
    /\ frames' = AfterProcessDeferredEvent(frames)
    /\ log' = Append(log, [Entry("replayed", Top.run, 0, NoState, 0, "-")
                             EXCEPT !.pass = Top.pass])
    /\ UNCHANGED <<state_stack_, event_queue_, deferred_queue_, initial_transition_,
                   status, next_state, next_event, next_run, abort_unknown>>

\* event_queue_.push_front(deferred_queue_.front()); ProcessQueueEvent();
Replay ==
    /\ InPDE("loop")
    /\ Top.i > 0
    /\ deferred_queue_ # <<>>
    /\ Len(frames) + 1 <= MaxCalls
    /\ event_queue_' = <<Head(deferred_queue_)>> \o event_queue_
    /\ frames' = CallPQE(SetTop([Top EXCEPT !.pc = "called", !.ev = Head(deferred_queue_)]),
                         Head(event_queue_'), Top.pass)
    /\ next_run' = next_run + 1
    /\ log' = Append(log, [Entry("replay", next_run, 0, NoState, Head(deferred_queue_).id, "-")
                             EXCEPT !.pass = Top.pass])
    /\ UNCHANGED <<state_stack_, deferred_queue_, initial_transition_,
                   status, next_state, next_event, abort_unknown>>

\* deferred_queue_.front() of an empty list: undefined behaviour.  The build
\* crashes, or reads some event out of the list's sentinel.
ReplayFrontOfEmpty ==
    /\ InPDE("loop")
    /\ Top.i > 0
    /\ deferred_queue_ = <<>>
    /\ Len(frames) + 1 <= MaxCalls
    /\ \/ /\ status' = "crashed"
          /\ log' = Append(log, [Entry("undefined", Top.run, 0, NoState, 0, "front")
                                   EXCEPT !.pass = Top.pass])
          /\ UNCHANGED <<event_queue_, frames, next_run>>
       \/ \E t \in EventTypes :
             LET garbage == [id |-> 0, type |-> t]
             IN  /\ event_queue_' = <<garbage>> \o event_queue_
                 /\ frames' = CallPQE(SetTop([Top EXCEPT !.pc = "called", !.ev = garbage]),
                                      garbage, Top.pass)
                 /\ next_run' = next_run + 1
                 /\ log' = Append(log, [Entry("undefined", next_run, 0, NoState, 0, "front")
                                          EXCEPT !.pass = Top.pass])
                 /\ status' = status
    /\ UNCHANGED <<state_stack_, deferred_queue_, initial_transition_,
                   next_state, next_event, abort_unknown>>

\* deferred_queue_.pop_front(); event_queue_.pop_front(); --i
ReplayPop ==
    /\ InPDE("called")
    /\ deferred_queue_ # <<>>
    /\ event_queue_ # <<>>
    /\ deferred_queue_' = Tail(deferred_queue_)
    /\ event_queue_' = Tail(event_queue_)
    /\ frames' = SetTop([Top EXCEPT !.pc = "loop", !.i = Top.i - 1])
    /\ log' = Append(log, [Entry("pop", Top.run, 0, NoState, Head(deferred_queue_).id,
                                 IF Head(deferred_queue_) = Top.ev /\ Head(event_queue_) = Top.ev
                                 THEN "same" ELSE "other")
                             EXCEPT !.pass = Top.pass])
    /\ UNCHANGED <<state_stack_, initial_transition_, status,
                   next_state, next_event, next_run, abort_unknown>>

\* deferred_queue_.pop_front() of an empty list: undefined behaviour.  The
\* build crashes, or the list stays empty and the function goes on.
ReplayPopOfEmpty ==
    /\ InPDE("called")
    /\ deferred_queue_ = <<>>
    /\ event_queue_ # <<>>
    /\ log' = Append(log, [Entry("undefined", Top.run, 0, NoState, 0, "pop_front")
                             EXCEPT !.pass = Top.pass])
    /\ \/ /\ status' = "crashed"
          /\ UNCHANGED <<event_queue_, frames>>
       \/ /\ status' = status
          /\ event_queue_' = Tail(event_queue_)
          /\ frames' = SetTop([Top EXCEPT !.pc = "loop", !.i = Top.i - 1])
    /\ UNCHANGED <<state_stack_, deferred_queue_, initial_transition_,
                   next_state, next_event, next_run, abort_unknown>>

\* ------------------------------------------------------------------- Next
Next ==
    \/ \E t \in RootTypes : initialize(t)
    \/ stop
    \/ \E t \in EventTypes : process_event(t)
    \/ process_event_next
    \/ DispatchEnd
    \/ DispatchNo
    \/ DispatchDefer
    \/ DispatchDefaultReact
    \/ \E t \in StateTypes : DispatchSibling(t)
    \/ UnknownEvent
    \/ ReplayDone
    \/ Replay
    \/ ReplayFrontOfEmpty
    \/ ReplayPop
    \/ ReplayPopOfEmpty

Spec == Init /\ [][Next]_vars

\* ========================================================== properties
\* helpers over the log
Where(op) == {n \in DOMAIN log : log[n].op = op}

\* position of n among the members of S, counted from 1
Rank(n, S) == Cardinality({m \in S : m <= n})

\* the log entries by which the pass (ProcessDeferredEvent call) r starts a
\* replay, and those by which it ends one (its two pop_front calls)
ReplaysOf(r) == {n \in Where("replay") : log[n].pass = r}

PopsOf(r) ==
    {n \in DOMAIN log :
        /\ log[n].pass = r
        /\ \/ log[n].op = "pop"
           \/ log[n].op = "undefined" /\ log[n].res = "pop_front"}

\* where pass r ends in the log: its "replayed" entry, or past the log's end
EndOf(r) ==
    LET e == {n \in Where("replayed") : log[n].pass = r}
    IN  IF e = {} THEN Len(log) + 1 ELSE CHOOSE n \in e : TRUE

\* where the j-th replay of pass r ends
PopOf(r, j) ==
    LET e == {n \in PopsOf(r) : Rank(n, PopsOf(r)) = j}
    IN  IF e = {} THEN Len(log) + 1 ELSE CHOOSE n \in e : TRUE

\* C4: every state on the stack has a recorded depth (stack_depth_) equal to
\* its index in the stack.
StackDepthInvariant ==
    \A n \in DOMAIN state_stack_ : state_stack_[n].stack_depth_ = n - 1

\* C1: the replays made by the pass that follows a transition are those of
\* the events deferred before it, in the order of their deferral, and while
\* one of them is being resolved (until the pass pops it) none of the events
\* deferred after it is replayed.
DeferredReplayOrdering ==
    \A p \in Where("ProcessDeferredEvent") :
        LET r == log[p].pass
            q == log[p].q
        IN  \A n \in ReplaysOf(r) :
                LET j == Rank(n, ReplaysOf(r))
                IN  /\ j <= Len(q)
                    /\ log[n].ev = q[j]
                    /\ \A m \in (n + 1)..(PopOf(r, j) - 1) :
                          ~(/\ log[m].op = "replay"
                            /\ \E k \in (j + 1)..Len(q) : q[k] = log[m].ev)

\* C2: every event in the DeferredQueue when a transition executes is
\* replayed exactly once by the pass that follows (not once more by a pass
\* nested in it), and the pass then pops that very event from both queues.
ReplayedExactlyOnce ==
    \A p \in Where("ProcessDeferredEvent") :
        LET r == log[p].pass
            q == log[p].q
            during == {n \in Where("replay") : p < n /\ n < EndOf(r)}
        IN  /\ \A k \in DOMAIN q :
                  LET times == Cardinality({n \in during : log[n].ev = q[k]})
                      copies == Cardinality({c \in DOMAIN q : q[c] = q[k]})
                  IN  /\ times <= copies
                      /\ EndOf(r) <= Len(log) => times = copies
            /\ \A n \in PopsOf(r) : log[n].op = "pop" /\ log[n].res = "same"

\* C3: the replay recursion is no deeper than the number of events that were
\* deferred when the outermost pass began.
ReplayDepthBounded ==
    \A n \in DOMAIN frames :
        /\ frames[n].fn = "ProcessDeferredEvent"
        /\ \A m \in 1..(n - 1) : frames[m].fn # "ProcessDeferredEvent"
        => LET p == CHOOSE x \in Where("ProcessDeferredEvent") :
                       log[x].pass = frames[n].pass
           IN  Cardinality({m \in DOMAIN frames :
                               m > n /\ frames[m].fn = "ProcessQueueEvent"})
                 <= Len(log[p].q)

\* ---- steps, as seen from a state and its successor
\* the log entries a step adds
Added == {n \in DOMAIN log' : n > Len(log)}

\* the step is the Sibling case of a ProcessQueueEvent call: the stack is
\* replaced and ProcessDeferredEvent is called
SiblingStep ==
    /\ InPQE
    /\ Len(frames') = Len(frames) + 1
    /\ frames'[Len(frames')].fn = "ProcessDeferredEvent"

\* the step is a stop call
StopStep == Idle /\ Added # {} /\ log'[Len(log')].op = "stop"

\* the step is a handler call that returns defer()
DeferStep ==
    /\ InPQE
    /\ Len(log') = Len(log) + 1
    /\ log'[Len(log')].op = "Dispatch"
    /\ log'[Len(log')].res = "Defer"

StackIds(stack) == {stack[n].id : n \in DOMAIN stack}

\* the chain of types PushState pushes for a state of type t
RECURSIVE Chain(_)
Chain(t) == IF InitType(t) # t THEN <<t>> \o Chain(InitType(t)) ELSE <<t>>

Types(stack) == [n \in DOMAIN stack |-> stack[n].type]

\* C5: within one run of ProcessQueueEvent, once a state has returned
\* anything but End (a Sibling or No transition), no state is consulted
\* again for the run's event: at most one Sibling transition per run, and
\* no state of the old stack or of the new chain is asked after it.
TransitionExclusivity ==
    \A n \in Where("Dispatch") :
        log[n].res # "End"
        => \A m \in Where("Dispatch") : m > n => log[m].run # log[n].run

\* a run has executed a Sibling transition at a depth below the new leaf,
\* its replay pass is over and process_event has returned
TransitionExclusivityWitness ==
    /\ Idle
    /\ \E n \in Where("Dispatch") :
          /\ log[n].res = "Sibling"
          /\ EndOf(log[n].run) <= Len(log)
          /\ Len(state_stack_) > log[n].depth + 1

\* C6: a Sibling(target) result at depth d leaves the states at indices
\* 0..d-1 as they are (same instances, no hook called on them), removes every
\* state at index >= d (each exited), and the stack becomes that prefix,
\* a fresh instance of target at index d, then the chain of its initial
\* substates, all fresh.
SiblingTransitionEffect ==
    [][SiblingStep =>
        LET d == Top.depth
            target == log'[Len(log) + 1].target
            hooks == {n \in Added : log'[n].op \in {"on_enter", "on_exit"}}
        IN  /\ Len(state_stack_') > d
            /\ SubSeq(state_stack_', 1, d) = SubSeq(state_stack_, 1, d)
            /\ \A n \in hooks : \A k \in 1..d : log'[n].sid # state_stack_[k].id
            /\ \A k \in (d + 1)..Len(state_stack_) :
                  /\ state_stack_[k].id \notin StackIds(state_stack_')
                  /\ \E n \in hooks :
                        log'[n].op = "on_exit" /\ log'[n].sid = state_stack_[k].id
            /\ Types(SubSeq(state_stack_', d + 1, Len(state_stack_'))) = Chain(target)
            /\ \A k \in (d + 1)..Len(state_stack_') :
                  /\ state_stack_'[k].id >= next_state
                  /\ \A j \in (d + 1)..Len(state_stack_') :
                        j # k => state_stack_'[j].id # state_stack_'[k].id
    ]_vars

\* right after a transition at a depth >= 1 whose target has an initial
\* substate: a kept prefix, a popped state and a pushed chain
SiblingTransitionEffectWitness ==
    /\ frames # <<>>
    /\ Top.fn = "ProcessDeferredEvent"
    /\ log[Len(log)].op = "ProcessDeferredEvent"
    /\ log[Len(log)].depth >= 1
    /\ Len(state_stack_) > log[Len(log)].depth + 1

\* C7: the states popped by one stop or one Sibling transition are exited
\* leaf first: the j-th on_exit of the step is on the state j-th from the
\* leaf, down to index d (0 for stop), once per popped instance, and no
\* instance is ever exited twice.
LeafFirstTeardown ==
    [][SiblingStep \/ StopStep =>
        LET d == IF StopStep THEN 0 ELSE Top.depth
            exits == {n \in Added : log'[n].op = "on_exit"}
            size == Len(state_stack_)
        IN  /\ Cardinality(exits) = size - d
            /\ \A n \in exits :
                  LET j == Rank(n, exits)
                  IN  /\ log'[n].depth = size - j
                      /\ log'[n].sid = state_stack_[size - j + 1].id
                      /\ \A m \in Where("on_exit") : log[m].sid # log'[n].sid
    ]_vars

\* a Sibling transition has popped at least two states and a later stop has
\* popped at least two
LeafFirstTeardownWitness ==
    /\ \E n \in Where("Dispatch") :
          /\ log[n].res = "Sibling"
          /\ n + 2 <= Len(log)
          /\ log[n + 1].op = "on_exit"
          /\ log[n + 2].op = "on_exit"
    /\ \E n \in Where("stop") :
          /\ n > 2
          /\ log[n - 1].op = "on_exit"
          /\ log[n - 2].op = "on_exit"

\* C8: the on_enter of a state whose initial substate differs from itself
\* is followed at once, within the same push, by the on_enter of a new
\* instance of that substate one index deeper; and until a state is exited
\* the stack is the chain of initialize's state type: [R, S] for R with
\* initial substate S.
InitialSubstateCascade ==
    /\ \A n \in Where("on_enter") :
          InitType(log[n].type) # log[n].type
          => /\ n + 1 <= Len(log)
             /\ log[n + 1].op = "on_enter"
             /\ log[n + 1].type = InitType(log[n].type)
             /\ log[n + 1].depth = log[n].depth + 1
             /\ log[n + 1].sid > log[n].sid
    /\ \A n \in DOMAIN state_stack_ :
          /\ n = Len(state_stack_) => ~HasInitializeState(state_stack_[n])
          /\ \E m \in Where("on_enter") :
                log[m].sid = state_stack_[n].id /\ log[m].depth = n - 1
    /\ ~IsNo(initial_transition_) /\ Where("on_exit") = {} /\ Where("stop") = {}
       => Types(state_stack_) = Chain(initial_transition_.state_factory_)

\* initialize<Outer> has returned: Outer, its initial substate First and
\* First's initial substate Second are on the stack
InitialSubstateCascadeWitness ==
    /\ Idle
    /\ Where("on_exit") = {}
    /\ Types(state_stack_) = <<"Outer", "First", "Second">>

\* C9: when no process_event call is running (each has returned), the
\* EventQueue is empty.
FullDrain == Idle => event_queue_ = <<>>

\* process_event has just returned from a call in which deferred events
\* were replayed
FullDrainWitness ==
    /\ Idle
    /\ log # <<>>
    /\ log[Len(log)].op = "return"
    /\ \E n \in Where("replay") :
          \A m \in Where("process_event") : m > n => log[m].ev = log[Len(log)].ev

\* C10: a handler call that returns defer() appends the event being
\* dispatched to the tail of the DeferredQueue, leaves the stack as it is and
\* replays nothing; and if no transition is executed after it, the event is
\* in the DeferredQueue when process_event returns.
DeferralWithoutTransition ==
    [][/\ DeferStep
          => /\ deferred_queue_' = Append(deferred_queue_, Top.ev)
             /\ state_stack_' = state_stack_
             /\ Len(frames') < Len(frames)
       /\ Len(log') > Len(log) /\ log'[Len(log')].op = "return"
          => \A n \in DOMAIN log :
                /\ log[n].op = "Dispatch"
                /\ log[n].res = "Defer"
                /\ \A m \in DOMAIN log :
                      m > n => log[m].op # "return" /\ log[m].res # "Sibling"
                => \E k \in DOMAIN deferred_queue_' :
                      deferred_queue_'[k].id = log[n].ev
    ]_vars

\* ---- C11
IsPrefix(a, b) == Len(a) <= Len(b) /\ SubSeq(b, 1, Len(a)) = a

\* C11: deferred events are never deferred indefinitely: no event stays in
\* the DeferredQueue past stop (when stop returns the DeferredQueue is
\* empty, whatever events were processed after the deferral).
NeverDeferredIndefinitely ==
    log # <<>> /\ log[Len(log)].op = "stop" => deferred_queue_ = <<>>

\* C11 as amended: an event leaves the DeferredQueue only by the pop of a
\* replay pass, which only a Sibling transition starts; every other step
\* keeps the queue or appends the dispatched event to it, a call made on the
\* idle machine (stop among them) leaves it as it is, and a process_event
\* call in which no transition is executed returns with every event that
\* was deferred before it still deferred, in the same order.
DeferredUntilTransition ==
    [][/\ ~IsPrefix(deferred_queue_, deferred_queue_') => InPDE("called")
       /\ deferred_queue_' # deferred_queue_ /\ ~InPDE("called")
          => InPQE /\ deferred_queue_' = Append(deferred_queue_, Top.ev)
       /\ Idle => deferred_queue_' = deferred_queue_
       /\ Len(log') > Len(log) /\ log'[Len(log')].op = "return"
          => LET c == CHOOSE n \in Where("process_event") :
                         \A m \in Where("process_event") : m <= n
             IN  (\A m \in DOMAIN log : m > c => log[m].res # "Sibling")
                 => IsPrefix(log[c].q, log'[Len(log')].q)
    ]_vars

\* an event was deferred, a later process_event call was answered without a
\* transition and returned, stop was then called: the event is still deferred
DeferredUntilTransitionWitness ==
    /\ Idle
    /\ log # <<>>
    /\ log[Len(log)].op = "stop"
    /\ deferred_queue_ # <<>>
    /\ \E n \in Where("Dispatch") :
          /\ log[n].res = "No"
          /\ \E k \in DOMAIN deferred_queue_ : deferred_queue_[k].id < log[n].ev

\* ---- C12
\* the react functions of test.cc: what each returns for the event it takes
TestReact(SelfType, EventType) ==
    CASE SelfType = "Second" /\ EventType = "event_open"  -> Outcome("Sibling", "Third")
      [] SelfType = "Second" /\ EventType = "event_close" -> Outcome("Defer", "null")
      [] SelfType = "Third"  /\ EventType = "event_close" -> Outcome("No", "null")
      [] OTHER -> Outcome("none", "null")

\* the calls of MyOwner::MyOwner, as they are logged
TestCalls ==
    << [op |-> "initialize", arg |-> "First"],
       [op |-> "process_event", arg |-> "event_close"],
       [op |-> "process_event", arg |-> "event_open"],
       [op |-> "stop", arg |-> "null"] >>

\* the calls made on the machine so far, in order
RECURSIVE CallsOf(_)
CallsOf(l) ==
    IF l = <<>> THEN <<>>
    ELSE LET e == l[Len(l)]
             rest == CallsOf(SubSeq(l, 1, Len(l) - 1))
         IN  CASE e.op = "initialize"    -> Append(rest, [op |-> e.op, arg |-> e.target])
               [] e.op = "process_event" -> Append(rest, [op |-> e.op, arg |-> e.etype])
               [] e.op = "stop"          -> Append(rest, [op |-> e.op, arg |-> "null"])
               [] OTHER -> rest

\* the run is (a prefix of) the run of test.cc: its calls in their order,
\* and every react function called has answered as test.cc's does
TestRun ==
    /\ IsPrefix(CallsOf(log), TestCalls)
    /\ \A n \in Where("Dispatch") :
          log[n].res \in {"No", "Defer", "Sibling"}
          => TestReact(log[n].type, log[n].etype) = Outcome(log[n].res, log[n].target)

Line(op, type, ev, res, target) ==
    [op |-> op, type |-> type, ev |-> ev, res |-> res, target |-> target]

Lines(l) ==
    [n \in DOMAIN l |-> Line(l[n].op, l[n].type, l[n].ev, l[n].res, l[n].target)]

\* what test.cc's run does, call by call: event 1 is Close, event 2 is Open
TestLines ==
    << Line("initialize", "null", 0, "-", "First"),
       Line("on_enter", "First", 0, "-", "null"),
       Line("on_enter", "Second", 0, "-", "null"),
       Line("process_event", "null", 1, "-", "null"),
       Line("Dispatch", "First", 1, "End", "null"),
       Line("Dispatch", "Second", 1, "Defer", "null"),
       Line("return", "null", 1, "-", "null"),
       Line("process_event", "null", 2, "-", "null"),
       Line("Dispatch", "First", 2, "End", "null"),
       Line("Dispatch", "Second", 2, "Sibling", "Third"),
       Line("on_exit", "Second", 0, "-", "null"),
       Line("on_enter", "Third", 0, "-", "null"),
       Line("ProcessDeferredEvent", "null", 2, "-", "null"),
       Line("replay", "null", 1, "-", "null"),
       Line("Dispatch", "First", 1, "End", "null"),
       Line("Dispatch", "Third", 1, "No", "null"),
       Line("pop", "null", 1, "same", "null"),
       Line("replayed", "null", 0, "-", "null"),
       Line("return", "null", 2, "-", "null"),
       Line("on_exit", "Third", 0, "-", "null"),
       Line("on_exit", "First", 0, "-", "null"),
       Line("stop", "null", 0, "-", "null") >>

\* C12: the run of test.cc (root First with initial substate Second, Second
\* deferring Close and answering Open with transit<Third>, Third answering
\* Close with finish): initialize; process_event(Close); process_event(Open)
\* enters First, enters Second, exits Second, enters Third and replays Close
\* on Third, in this order, and returns with stack [First, Third], an empty
\* DeferredQueue and no abort; the stop that follows exits Third, then First.
ExampleScenario ==
    TestRun
    => /\ IsPrefix(Lines(log), TestLines)
       /\ status = "running"
       /\ Len(log) = 19
          => /\ Types(state_stack_) = <<"First", "Third">>
             /\ deferred_queue_ = <<>>
             /\ event_queue_ = <<>>
             /\ frames = <<>>
       /\ Len(log) = 22 => state_stack_ = <<>> /\ deferred_queue_ = <<>>

\* the run of test.cc has been made to its end
ExampleScenarioWitness ==
    /\ TestRun
    /\ CallsOf(log) = TestCalls
    /\ Idle

\* ---- C13
\* the step is an initialize call
InitializeStep ==
    /\ Idle
    /\ Len(log') > Len(log)
    /\ log'[Len(log) + 1].op = "initialize"

\* C13: initialize is one-time: a call of initialize on a machine on which
\* initialize has been called before fails an assertion, with the stack
\* non-empty as well as with the stack emptied by stop in between, and the
\* failed call leaves the stack as it is (no state entered or exited); the
\* first call fails no assertion.
InitializeOnce ==
    [][InitializeStep =>
        IF Where("initialize") # {}
        THEN /\ status' = "aborted"
             /\ state_stack_' = state_stack_
             /\ Len(log') = Len(log) + 1
        ELSE /\ status' = "running"
             /\ Types(state_stack_') = Chain(log'[Len(log) + 1].target)
    ]_vars

\* initialize has been called again after stop had emptied the stack
InitializeOnceWitness ==
    /\ log # <<>>
    /\ log[Len(log)].op = "initialize"
    /\ Where("stop") # {}
    /\ Cardinality(Where("initialize")) = 2
    /\ Where("on_exit") # {}
    /\ state_stack_ = <<>>

\* ---- C14
\* C14: stop always leaves the stack empty and fails no assertion, and a
\* stop on a machine whose stack is already empty (never initialized, or
\* stopped before) invokes no on_exit.
StopIdempotent ==
    [][StopStep =>
        /\ state_stack_' = <<>>
        /\ status' = "running"
        /\ state_stack_ = <<>> => Len(log') = Len(log) + 1
    ]_vars

\* stop has been called on a machine that an earlier stop had emptied
StopIdempotentWitness ==
    /\ Len(log) > 2
    /\ log[Len(log)].op = "stop"
    /\ log[Len(log) - 1].op = "stop"
    /\ log[Len(log) - 2].op = "on_exit"
    /\ status = "running"

\* ---- C15
\* C15: once initialize has returned and until stop is called the stack is
\* not empty, whatever process_event calls are made and whatever they do,
\* transitions at depth 0 included.
StackNonEmpty ==
    Where("initialize") # {} /\ Where("stop") = {} => state_stack_ # <<>>

\* a transition at depth 0 has replaced the whole stack and process_event
\* has returned; stop has not been called
StackNonEmptyWitness ==
    /\ Idle
    /\ Where("stop") = {}
    /\ \E n \in Where("Dispatch") : log[n].res = "Sibling" /\ log[n].depth = 0

\* ---- C16
\* the Dispatch calls of a ProcessQueueEvent call that returned End
EndsOf(run) == {n \in Where("Dispatch") : log[n].run = run /\ log[n].res = "End"}

\* C16: when every state of the stack, root to leaf, has returned End for
\* the event being dispatched (an external event or a replayed one), the
\* next thing the engine does is the unknown-event diagnostic, and nothing
\* else emits it; the build that aborts on unknown events (the default)
\* aborts there; the build that does not returns from the dispatch, the
\* stack and the DeferredQueue being what they were.
UnknownEventHandling ==
    [][/\ InPQE /\ Cardinality(EndsOf(Top.run)) = Len(state_stack_)
          => Len(log') = Len(log) + 1 /\ log'[Len(log')].op = "unknown"
       /\ Len(log') > Len(log) /\ log'[Len(log')].op = "unknown"
          => /\ InPQE
             /\ Cardinality(EndsOf(Top.run)) = Len(state_stack_)
             /\ \A n \in Where("Dispatch") : log[n].run = Top.run => log[n].res = "End"
             /\ \A k \in DOMAIN state_stack_ :
                   \E n \in EndsOf(Top.run) :
                      log[n].depth = k - 1 /\ log[n].sid = state_stack_[k].id
             /\ log'[Len(log')].ev = Top.ev.id
             /\ state_stack_' = state_stack_
             /\ deferred_queue_' = deferred_queue_
             /\ event_queue_' = event_queue_
             /\ IF abort_unknown
                THEN status' = "aborted"
                ELSE status' = "running" /\ frames' = Pop(1)
    ]_vars

\* a replayed deferred event was known to no state of the new stack, the
\* build does not abort, and process_event has returned
UnknownEventHandlingWitness ==
    /\ Idle
    /\ ~abort_unknown
    /\ state_stack_ # <<>>
    /\ \E n \in Where("unknown") : log[n].pass # 0

\* ---- C17
\* the state type claims the event type: it is in the type's reactions list
Claims(SelfType, EventType) ==
    \E k \in DOMAIN reactions(SelfType) : reactions(SelfType)[k] = EventType

\* the step consults a state: it calls the Dispatch of one
DispatchStep == Len(log') > Len(log) /\ log'[Len(log) + 1].op = "Dispatch"

\* C17: the states are consulted root to leaf: the k-th state a
\* ProcessQueueEvent call consults is the state at index k-1 of the stack,
\* every state consulted before it is a shallower state of the stack that
\* does not claim the event's type, and once a state that claims the type
\* has been consulted (its handler run), the call consults no deeper state:
\* an inner claimant is never consulted when an outer state claims the type.
RootToLeafDispatch ==
    [][DispatchStep =>
        LET e == log'[Len(log) + 1]
            before == {m \in Where("Dispatch") : log[m].run = e.run}
        IN  /\ e.depth = Cardinality(before)
            /\ e.depth < Len(state_stack_)
            /\ e.sid = state_stack_[e.depth + 1].id
            /\ e.type = state_stack_[e.depth + 1].type
            /\ \A m \in before :
                  /\ log[m].depth < e.depth
                  /\ log[m].sid = state_stack_[log[m].depth + 1].id
                  /\ log[m].ev = e.ev
                  /\ ~Claims(log[m].type, e.etype)
            /\ Claims(e.type, e.etype) /\ status' = "running"
               => \A k \in DOMAIN frames' :
                     frames'[k].fn = "ProcessQueueEvent" /\ frames'[k].run = e.run
                     => frames'[k].pc = "called"
    ]_vars

\* with Outer, First and Second on the stack an event of a type that Outer
\* and Second both claim was answered by Outer's handler without a
\* transition, and process_event has returned
RootToLeafDispatchWitness ==
    /\ Idle
    /\ Types(state_stack_) = <<"Outer", "First", "Second">>
    /\ \E n \in Where("Dispatch") :
          /\ log[n].type = "Outer"
          /\ log[n].res \in {"No", "Defer"}
          /\ Claims("Second", log[n].etype)

\* ---- C18
\* the on_enter calls and the on_exit calls made on an instance
EntersOf(id) == {n \in Where("on_enter") : log[n].sid = id}

ExitsOf(id) == {n \in Where("on_exit") : log[n].sid = id}

\* C18: on_enter is invoked exactly once on every state instance, when it is
\* pushed, and on_exit at most once, after that and when it is popped; the
\* instances entered and not yet exited are exactly those on the stack, each
\* once; and once stop has returned every instance ever entered has been
\* exited exactly once.
EnterExitBalance ==
    /\ \A id \in 1..(next_state - 1) :
          /\ Cardinality(EntersOf(id)) = 1
          /\ Cardinality(ExitsOf(id)) <= 1
          /\ \A n \in EntersOf(id) : \A m \in ExitsOf(id) : n < m
          /\ ExitsOf(id) = {} <=> id \in StackIds(state_stack_)
    /\ \A n \in Where("on_enter") \cup Where("on_exit") : log[n].sid \in 1..(next_state - 1)
    /\ Cardinality(StackIds(state_stack_)) = Len(state_stack_)
    /\ log # <<>> /\ log[Len(log)].op = "stop"
       => \A id \in 1..(next_state - 1) : Cardinality(ExitsOf(id)) = 1

\* states were entered by initialize and by a transition, some of them
\* exited by the transition, and stop has returned
EnterExitBalanceWitness ==
    /\ Idle
    /\ log # <<>>
    /\ log[Len(log)].op = "stop"
    /\ \E n \in Where("Dispatch") : log[n].res = "Sibling"
    /\ next_state > 3

\* ---- C19
\* where the replay pass of the transition made by run r starts in the log
PassOf(r) == CHOOSE p \in Where("ProcessDeferredEvent") : log[p].pass = r

\* C19: one Sibling transition at depth d: first the on_exit calls of the
\* popped states (those at index >= d, the state that returned the
\* transition among them), then the on_enter of the target at index d, then
\* the on_enter of its initial substates one index deeper each, and only
\* then the replay of the deferred events; the call that dispatched the
\* event consults no state after the transition and the instance that
\* returned it is never consulted again.
SiblingLifecycleOrder ==
    \A n \in Where("Dispatch") :
        log[n].res = "Sibling"
        => /\ \E p \in Where("ProcessDeferredEvent") : log[p].pass = log[n].run
           /\ LET p == PassOf(log[n].run)
                  d == log[n].depth
                  exits == {k \in (n + 1)..(p - 1) : log[k].op = "on_exit"}
                  enters == {k \in (n + 1)..(p - 1) : log[k].op = "on_enter"}
              IN  /\ n < p
                  /\ exits \cup enters = (n + 1)..(p - 1)
                  /\ \A k \in exits : \A j \in enters : k < j
                  /\ \E k \in exits : log[k].sid = log[n].sid /\ log[k].depth = d
                  /\ \A k \in exits : log[k].depth >= d
                  /\ Cardinality(enters) = Len(Chain(log[n].target))
                  /\ \A k \in enters :
                        /\ log[k].type = Chain(log[n].target)[Rank(k, enters)]
                        /\ log[k].depth = d + Rank(k, enters) - 1
                        /\ \A x \in DOMAIN log : x < n => log[x].sid # log[k].sid
                  /\ \A k \in ReplaysOf(log[n].run) : k > p
                  /\ \A m \in Where("Dispatch") :
                        m > n => log[m].run # log[n].run /\ log[m].sid # log[n].sid

\* a transition has popped two states or more, entered its target and the
\* target's initial substate, and a deferred event has been replayed after
SiblingLifecycleOrderWitness ==
    \E n \in Where("Dispatch") :
        /\ log[n].res = "Sibling"
        /\ n + 4 <= Len(log)
        /\ log[n + 1].op = "on_exit"
        /\ log[n + 2].op = "on_exit"
        /\ Len(Chain(log[n].target)) > 1
        /\ ReplaysOf(log[n].run) # {}

\* ---- C20
\* C20: a state returns End (NotHandled) exactly when the event's type is
\* not in its reactions list, so a state that declares no reactions returns
\* End for every event; and a state that returned End never ends the
\* dispatch: the next thing done is the Dispatch of the state one index
\* deeper, or the unknown-event diagnostic when there is none.
NotHandledIffUnclaimed ==
    /\ \A n \in Where("Dispatch") :
          /\ log[n].res = "End" <=> ~Claims(log[n].type, log[n].etype)
          /\ reactions(log[n].type) = <<"Event">> => log[n].res = "End"
          /\ log[n].res = "End" /\ n < Len(log)
             => /\ log[n + 1].run = log[n].run
                /\ \/ log[n + 1].op = "unknown"
                   \/ /\ log[n + 1].op = "Dispatch"
                      /\ log[n + 1].depth = log[n].depth + 1
                      /\ log[n + 1].ev = log[n].ev
    /\ \A t \in StateTypes : \A e \in EventTypes :
          LET out == DispatchImpl(t, reactions(t), [id |-> 1, type |-> e])
          IN  IF Claims(t, e)
              THEN Outcome("end", "null") \notin out
              ELSE out = {Outcome("end", "null")}

\* root First, which declares no reactions, has let an event_close and an
\* event_open through to Second
NotHandledIffUnclaimedWitness ==
    /\ Idle
    /\ \A t \in EventTypes :
          \E n \in Where("Dispatch") :
             /\ log[n].type = "First"
             /\ log[n].depth = 0
             /\ log[n].etype = t
             /\ log[n].res = "End"
             /\ log[n + 1].op = "Dispatch"
             /\ log[n + 1].type = "Second"

\* ---- C21
\* C21: ProcessDeferredEvent never reads or removes the front of an empty
\* queue: when it takes the next event to replay the DeferredQueue is not
\* empty, and when the dispatch of a replayed event has returned, both queues
\* are non-empty, the front of the DeferredQueue is the event just replayed,
\* the front of the EventQueue is the copy pushed for it, and these two
\* elements are what the pass removes; also when the replayed event made a
\* transition and with it a nested ProcessDeferredEvent.
ReplayPopSafety ==
    [][/\ InPDE("loop") /\ Top.i > 0 => deferred_queue_ # <<>>
       /\ InPDE("called")
          => /\ deferred_queue_ # <<>>
             /\ event_queue_ # <<>>
             /\ Head(deferred_queue_) = Top.ev
             /\ Head(event_queue_) = Top.ev
             /\ deferred_queue_' = Tail(deferred_queue_)
             /\ event_queue_' = Tail(event_queue_)
             /\ status' = "running"
    ]_vars

\* ---- C22
\* the places an event holds in the DeferredQueue
PlacesOf(ev) == {k \in DOMAIN deferred_queue_ : deferred_queue_[k].id = ev}

\* C22: when the handler reached by a replayed event has answered defer()
\* and no transition has been executed since, then once the replay pass is
\* over the DeferredQueue holds exactly one copy of the event, behind the
\* events that were deferred again before it in the same pass, and the event
\* is not dispatched again (it waits there for the next transition).
RedeferralDuringReplay ==
    \A n \in Where("Dispatch") :
        /\ log[n].res = "Defer"
        /\ log[n].pass # 0
        /\ log[n].ev > 0
        /\ EndOf(log[n].pass) <= Len(log)
        /\ \A m \in Where("Dispatch") : m > n => log[m].res # "Sibling"
        => /\ Cardinality(PlacesOf(log[n].ev)) = 1
           /\ \A b \in Where("Dispatch") :
                 /\ b < n
                 /\ log[b].pass = log[n].pass
                 /\ log[b].res = "Defer"
                 /\ log[b].ev # log[n].ev
                 => \E k \in PlacesOf(log[b].ev) :
                       \A j \in PlacesOf(log[n].ev) : k < j
           /\ \A m \in Where("Dispatch") : m > n => log[m].ev # log[n].ev

\* ---- C23
\* the step belongs to a process_event call made on an empty stack: it is
\* the call, or a step of the call
EmptyStackStep ==
    /\ state_stack_ = <<>>
    /\ \/ frames # <<>>
       \/ Len(log') > Len(log) /\ log'[Len(log')].op = "process_event"

\* C23: a process_event call on a machine whose stack is empty (before
\* initialize, or after stop) consults no state and enters none, leaves the
\* stack empty and the DeferredQueue as it was, and does one thing with the
\* event: the unknown-event diagnostic, at which the build that aborts on
\* unknown events aborts; in the other build the call then returns with the
\* event removed from the EventQueue.
EmptyStackProcessEvent ==
    [][EmptyStackStep =>
        /\ state_stack_' = <<>>
        /\ deferred_queue_' = deferred_queue_
        /\ next_state' = next_state
        /\ \A n \in Added : log'[n].op \in {"process_event", "unknown", "return"}
        /\ InPQE
           => /\ Len(log') = Len(log) + 1
              /\ log'[Len(log')].op = "unknown"
              /\ log'[Len(log')].ev = Top.ev.id
              /\ status' = IF abort_unknown THEN "aborted" ELSE "running"
        /\ frames # <<>> /\ Top.fn = "process_event"
           => /\ log[Len(log)].op = "unknown"
              /\ frames' = <<>>
              /\ event_queue_' = <<>>
    ]_vars

\* stop has emptied the stack with an event still deferred, and a
\* process_event call made after it has returned
EmptyStackProcessEventWitness ==
    /\ Idle
    /\ state_stack_ = <<>>
    /\ deferred_queue_ # <<>>
    /\ Len(log) > 3
    /\ log[Len(log)].op = "return"
    /\ log[Len(log) - 1].op = "unknown"
    /\ log[Len(log) - 2].op = "process_event"
    /\ log[Len(log) - 3].op = "stop"

====
